---------------------------- MODULE Spec2Model ----------------------------
(***************************************************************************)
(* A model of NBA_ML.py: main() builds a training table from games.csv,    *)
(* teams.csv and ranking.csv, benchmarks a fixed panel of sixteen          *)
(* classifiers by ROC-AUC, rebuilds the winner from its class name and     *)
(* pickles it.                                                             *)
(*                                                                         *)
(* A DataFrame is a sequence of rows; a row is [idx |-> the index label,   *)
(* c |-> the function from column names to values].  A missing value is    *)
(* NaN.  The statements of main() are grouped into steps, one action per   *)
(* step, and pc is the step the run is at.                                 *)
(***************************************************************************)
EXTENDS Integers, Sequences, FiniteSets, TLC

VARIABLES
    pc,            \* the step of main() the run is at
    games_csv,     \* the rows of ./data/games.csv
    df,            \* the working games table
    df_tm,         \* teams.csv after cleaning
    df_rnk,        \* ranking.csv after cleaning
    X,             \* the feature matrix
    y,             \* the label vector
    detAUC,        \* the AUC the input gives each candidate whose fit draws no unseeded random number
    fitted,        \* the panel entries whose instance has been fitted
    result_table,  \* one row per evaluated candidate
    shown,         \* what has been printed or charted so far, in order
    final,         \* the variable final: nothing, then the winner's name, then the rebuilt instance
    pickled,       \* what has been written to final_model.pkl
    err,           \* the exception that ended the run, if any
    run,           \* which execution of the program this is
    prev           \* what the previous execution ended with

dataVars == <<games_csv, df, df_tm, df_rnk, X, y>>
selVars == <<detAUC, fitted, result_table, shown, final, pickled, err, run, prev>>
vars == <<pc, games_csv, df, df_tm, df_rnk, X, y, detAUC, fitted, result_table, shown, final, pickled, err, run, prev>>

NaN == 0 - 1
None == [kind |-> "none"]

-----------------------------------------------------------------------------
(* Bounds of the inputs.                                                   *)

MaxGames == 3
MaxStand == 2
MaxHistRows == 3
CalSpan == 500
Teams == {1, 2}
\* Day counts, the representation GAME_DATE_EST is read in (42064 is 2015-03-01).
Dates == {42063, 42064}
\* The days from 2015-01-01 on.
CalDates == 42005..(42005 + CalSpan)

-----------------------------------------------------------------------------
(* Generic table helpers.                                                  *)

RECURSIVE SelectRows(_, _)
\* The rows of t at the positions in keep, in order.
SelectRows(t, keep) ==
    IF t = <<>> THEN <<>>
    ELSE LET n == Len(t)
             rest == SelectRows(SubSeq(t, 1, n - 1), keep)
         IN IF n \in keep THEN Append(rest, t[n]) ELSE rest

HasNaN(r) == \E k \in DOMAIN r.c : r.c[k] = NaN

\* DataFrame.dropna(): the rows without a missing value, index labels kept.
DropNa(t) == SelectRows(t, {i \in DOMAIN t : ~HasNaN(t[i])})

\* DataFrame.drop(columns, axis=1)
DropCols(t, cols) ==
    [i \in DOMAIN t |-> [idx |-> t[i].idx, c |-> [k \in (DOMAIN t[i].c) \ cols |-> t[i].c[k]]]]

\* A fresh RangeIndex, as pd.merge gives its result.
ResetIndex(t) == [i \in DOMAIN t |-> [idx |-> i - 1, c |-> t[i].c]]


-----------------------------------------------------------------------------
(* The input tables, as they stand after the load-and-clean statements.    *)

BoxCols ==
    {"PTS_home", "FG_PCT_home", "FT_PCT_home", "FG3_PCT_home", "AST_home", "REB_home",
     "PTS_away", "FG_PCT_away", "FT_PCT_away", "FG3_PCT_away", "AST_away", "REB_away"}

\* Box scores a game row may carry (percentages in thousandths), with the label they imply.
BoxProfiles ==
    << [PTS_home |-> 100, FG_PCT_home |-> 450, FT_PCT_home |-> 750, FG3_PCT_home |-> 350,
        AST_home |-> 20, REB_home |-> 40,
        PTS_away |-> 90, FG_PCT_away |-> 400, FT_PCT_away |-> 700, FG3_PCT_away |-> 300,
        AST_away |-> 18, REB_away |-> 38, HOME_TEAM_WINS |-> 1],
       [PTS_home |-> 95, FG_PCT_home |-> 420, FT_PCT_home |-> 800, FG3_PCT_home |-> 310,
        AST_home |-> 25, REB_home |-> 45,
        PTS_away |-> 105, FG_PCT_away |-> 480, FT_PCT_away |-> 650, FG3_PCT_away |-> 390,
        AST_away |-> 21, REB_away |-> 41, HOME_TEAM_WINS |-> 0],
       [PTS_home |-> 111, FG_PCT_home |-> 500, FT_PCT_home |-> 900, FG3_PCT_home |-> 400,
        AST_home |-> 30, REB_home |-> 50,
        PTS_away |-> 110, FG_PCT_away |-> 490, FT_PCT_away |-> 610, FG3_PCT_away |-> 330,
        AST_away |-> 27, REB_away |-> 33, HOME_TEAM_WINS |-> 1] >>

\* One row of games.csv.
GameRow(date, home, vis, p) ==
    [GAME_DATE_EST |-> date, GAME_STATUS_TEXT |-> 0, HOME_TEAM_ID |-> home,
     VISITOR_TEAM_ID |-> vis, TEAM_ID_home |-> home, TEAM_ID_away |-> vis] @@ BoxProfiles[p]

\* One row of teams.csv: the attributes are fixed per team.
TeamRow(t) ==
    [TEAM_ID |-> t, ARENACAPACITY |-> 18000 + t, YEARFOUNDED |-> 1940 + t, CONFERENCE |-> t % 2]

\* The columns of ranking.csv that main() discards before the joins.
RankDropped == {"LEAGUE_ID", "SEASON_ID", "CONFERENCE", "TEAM", "HOME_RECORD", "ROAD_RECORD"}

\* One row of ranking.csv: team t's record on date d, with w wins out of two games.
RankRow(t, d, w) ==
    [TEAM_ID |-> t, STANDINGSDATE |-> d, G |-> 2, W |-> w, L |-> 2 - w, W_PCT |-> 500 * w,
     LEAGUE_ID |-> 0, SEASON_ID |-> 0, CONFERENCE |-> t % 2, TEAM |-> t,
     HOME_RECORD |-> 0, ROAD_RECORD |-> 0]

\* A table of the given rows under the index labels 0, 1, 2, ... of a freshly read file.
AsTable(rows) == [i \in DOMAIN rows |-> [idx |-> i - 1, c |-> rows[i]]]

SeqsUpTo(S, n) == UNION {[1..k -> S] : k \in 0..n}

Matchups == {<<h, v>> \in Teams \X Teams : h # v}

\* teams.csv after dropna: every team, or every team but one (a row with a blank field is dropped).
TeamTables ==
    {AsTable(SelectRows([t \in 1..Cardinality(Teams) |-> TeamRow(t)], S)) :
        S \in {T \in SUBSET Teams : Cardinality(T) >= Cardinality(Teams) - 1}}

-----------------------------------------------------------------------------
(* Load and clean: lines 35-52.  The results of drop_duplicates,           *)
(* sort_values and set_index are discarded there, so each table keeps the  *)
(* order and the index labels it was read with.                            *)

LoadAndClean(games, ranks, teams) ==
    /\ pc = "load"
    /\ games_csv' = games
    /\ df' = DropCols(DropNa(AsTable(games)), {"GAME_STATUS_TEXT", "TEAM_ID_home"})
    /\ df_tm' = DropNa(teams)
    /\ df_rnk' = DropNa(AsTable(ranks))
    /\ pc' = "teams"
    /\ UNCHANGED <<X, y>>
    /\ UNCHANGED selVars

-----------------------------------------------------------------------------
(* TeamEnricher: lines 58-91.                                              *)

HomeTeamCols ==
    [ARENACAPACITY |-> "ARENACAPACITY_homeTeam", YEARFOUNDED |-> "YEARFOUNDED_homeTeam",
     CONFERENCE |-> "CONFERENCE_homeTeam"]
AwayTeamCols ==
    [ARENACAPACITY |-> "ARENACAPACITY_awayTeam", YEARFOUNDED |-> "YEARFOUNDED_awayTeam",
     CONFERENCE |-> "CONFERENCE_awayTeam"]

RenameCols(r, names) ==
    [k \in {names[x] : x \in DOMAIN r} |-> r[CHOOSE x \in DOMAIN r : names[x] = k]]

\* pd.merge(left, teams[[key, ...]], on=key, how="left") followed by the rename of
\* the three attribute columns: a game row whose team has no row gets NaN.  (main()
\* renames the team table's key to the game table's before each merge; here the
\* team table keeps TEAM_ID and is matched against the game table's key.)
MergeTeams(left, teams, key, names) ==
    ResetIndex(
        [i \in DOMAIN left |->
            LET hit == {j \in DOMAIN teams : teams[j].c.TEAM_ID = left[i].c[key]}
                attrs == IF hit = {}
                         THEN [k \in DOMAIN names |-> NaN]
                         ELSE [k \in DOMAIN names |-> teams[CHOOSE j \in hit : TRUE].c[k]]
            IN [idx |-> left[i].idx, c |-> left[i].c @@ RenameCols(attrs, names)]])

TeamEnricher ==
    /\ pc = "teams"
    /\ df' = MergeTeams(MergeTeams(df, df_tm, "HOME_TEAM_ID", HomeTeamCols),
                        df_tm, "VISITOR_TEAM_ID", AwayTeamCols)
    /\ pc' = "joinHome"
    /\ UNCHANGED <<games_csv, df_tm, df_rnk, X, y>>
    /\ UNCHANGED selVars

-----------------------------------------------------------------------------
(* StandingsJoiner: lines 97-137.                                          *)

HomeSuffix ==
    [TEAM_ID |-> "TEAM_ID_homeTeam", STANDINGSDATE |-> "STANDINGSDATE_homeTeam",
     G |-> "G_homeTeam", W |-> "W_homeTeam", L |-> "L_homeTeam", W_PCT |-> "W_PCT_homeTeam"]
AwaySuffix ==
    [TEAM_ID |-> "TEAM_ID_awayTeam", STANDINGSDATE |-> "STANDINGSDATE_awayTeam",
     G |-> "G_awayTeam", W |-> "W_awayTeam", L |-> "L_awayTeam", W_PCT |-> "W_PCT_awayTeam"]

\* DataFrame.add_suffix
AddSuffix(t, names) == [i \in DOMAIN t |-> [idx |-> t[i].idx, c |-> RenameCols(t[i].c, names)]]

\* The right rows a left row may take: same team, and an index label below the
\* left row's (left_index=True, right_index=True, allow_exact_matches=False).
AsofCandidates(l, right, left_by, right_by) ==
    {j \in DOMAIN right : right[j].idx < l.idx /\ right[j].c[right_by] = l.c[left_by]}

Max(S) == CHOOSE m \in S : \A x \in S : x <= m

\* pd.merge_asof(left, right, left_index=True, right_index=True, left_by, right_by,
\* allow_exact_matches=False): the direction is backward, so the candidate with the
\* greatest label is taken, and a row without one gets NaN; the left labels are kept.
MergeAsof(left, right, left_by, right_by, names) ==
    [i \in DOMAIN left |->
        LET cand == AsofCandidates(left[i], right, left_by, right_by)
            got == IF cand = {}
                   THEN [k \in {names[x] : x \in DOMAIN names} |-> NaN]
                   ELSE right[Max(cand)].c
        IN [idx |-> left[i].idx, c |-> left[i].c @@ got]]

JoinHome ==
    /\ pc = "joinHome"
    /\ df_rnk' = DropCols(df_rnk, RankDropped)
    /\ df' = DropNa(MergeAsof(df, AddSuffix(df_rnk', HomeSuffix),
                              "HOME_TEAM_ID", "TEAM_ID_homeTeam", HomeSuffix))
    /\ pc' = "dropHomeKeys"
    /\ UNCHANGED <<games_csv, df_tm, X, y>>
    /\ UNCHANGED selVars

DropHomeKeys ==
    /\ pc = "dropHomeKeys"
    /\ df' = DropCols(df, {"TEAM_ID_homeTeam", "STANDINGSDATE_homeTeam"})
    /\ pc' = "joinAway"
    /\ UNCHANGED <<games_csv, df_tm, df_rnk, X, y>>
    /\ UNCHANGED selVars

JoinAway ==
    /\ pc = "joinAway"
    /\ df' = DropNa(MergeAsof(df, AddSuffix(df_rnk, AwaySuffix),
                              "VISITOR_TEAM_ID", "TEAM_ID_awayTeam", AwaySuffix))
    /\ pc' = "dropAwayKeys"
    /\ UNCHANGED <<games_csv, df_tm, df_rnk, X, y>>
    /\ UNCHANGED selVars

DropAwayKeys ==
    /\ pc = "dropAwayKeys"
    /\ df' = DropCols(df, {"TEAM_ID_awayTeam", "STANDINGSDATE_awayTeam"})
    /\ pc' = "calendar"
    /\ UNCHANGED <<games_csv, df_tm, df_rnk, X, y>>
    /\ UNCHANGED selVars

-----------------------------------------------------------------------------
(* CalendarFeaturizer: lines 140-160.                                      *)

IsLeap(yr) == yr % 4 = 0 /\ (yr % 100 # 0 \/ yr % 400 = 0)
DaysBeforeMonth == <<0, 31, 59, 90, 120, 151, 181, 212, 243, 273, 304, 334>>
DaysInMonth == <<31, 28, 31, 30, 31, 30, 31, 31, 30, 31, 30, 31>>

\* date.toordinal(): the proleptic Gregorian ordinal, 0001-01-01 being day 1.
ToOrdinal(yr, mo, dy) ==
    LET p == yr - 1
    IN p * 365 + (p \div 4) - (p \div 100) + (p \div 400)
       + DaysBeforeMonth[mo] + (IF mo > 2 /\ IsLeap(yr) THEN 1 ELSE 0) + dy

\* date.fromordinal(n): the 400/100/4/1-year cycle decomposition.
FromOrdinal(ord) ==
    LET n0 == ord - 1
        n400 == n0 \div 146097
        r400 == n0 % 146097
        n100 == r400 \div 36524
        r100 == r400 % 36524
        n4 == r100 \div 1461
        r4 == r100 % 1461
        n1 == r4 \div 365
        n == r4 % 365
        yr == n400 * 400 + 1 + n100 * 100 + n4 * 4 + n1
    IN IF n1 = 4 \/ n100 = 4
       THEN [year |-> yr - 1, month |-> 12, day |-> 31]
       ELSE LET leap == n1 = 3 /\ (n4 # 24 \/ n100 = 3)
                m0 == (n + 50) \div 32
                p0 == DaysBeforeMonth[m0] + (IF m0 > 2 /\ leap THEN 1 ELSE 0)
                mo == IF p0 > n THEN m0 - 1 ELSE m0
                pre == IF p0 > n
                       THEN p0 - (DaysInMonth[mo] + (IF mo = 2 /\ leap THEN 1 ELSE 0))
                       ELSE p0
            IN [year |-> yr, month |-> mo, day |-> n - pre + 1]

\* The conversion with the offset one day off.
GameDateOffByOne(x) == FromOrdinal(ToOrdinal(1900, 1, 1) + x - 1)

\* The calendar date main() reads a day count x as.
GameDate(x) == FromOrdinal(ToOrdinal(1900, 1, 1) + x - 2)

\* date.weekday(): 0 is Monday.
Weekday(d) == (ToOrdinal(d.year, d.month, d.day) + 6) % 7

\* strftime("%m"): the month as two decimal digits.
StrftimeMonth(d) == <<d.month \div 10, d.month % 10>>

\* astype(float) of such a string.
AsFloat(digits) == 10 * digits[1] + digits[2]

WeekendGame(wd) == IF wd < 5 THEN 0 ELSE 1

PlayoffGame(mo) == IF mo <= 6 /\ mo >= 4 THEN 1 ELSE 0

CalendarCols(x) ==
    LET wd == Weekday(GameDate(x))
        mo == AsFloat(StrftimeMonth(GameDate(x)))
    IN [WEEKDAY |-> wd, WEEKEND_GAME |-> WeekendGame(wd), MONTH_NUM |-> mo,
        PLAYOFF_GAME |-> PlayoffGame(mo)]

CalendarFeaturizer ==
    /\ pc = "calendar"
    /\ df' = [i \in DOMAIN df |->
                [idx |-> df[i].idx, c |-> df[i].c @@ CalendarCols(df[i].c.GAME_DATE_EST)]]
    /\ pc' = "hist"
    /\ UNCHANGED <<games_csv, df_tm, df_rnk, X, y>>
    /\ UNCHANGED selVars

-----------------------------------------------------------------------------
(* HistoricalAggregator: lines 169-337.  A mean is the fraction            *)
(* [n |-> numerator, d |-> denominator] in lowest terms.                   *)

Abs(a) == IF a < 0 THEN 0 - a ELSE a

RECURSIVE Gcd(_, _)
Gcd(a, b) == IF b = 0 THEN a ELSE Gcd(b, a % b)

Frac(a, b) == LET g == Gcd(Abs(a), b) IN [n |-> a \div g, d |-> b \div g]

FracSub(p, q) == Frac(p.n * q.d - q.n * p.d, p.d * q.d)

RECURSIVE SumCol(_, _)
\* The sum of column col over the rows of t.
SumCol(t, col) == IF t = <<>> THEN 0 ELSE t[1].c[col] + SumCol(Tail(t), col)

\* The rows of t whose column index holds key.
Group(t, index, key) == SelectRows(t, {i \in DOMAIN t : t[i].c[index] = key})

\* The pivot with the sum as its aggregate.
PivotSum(t, values, index) ==
    [key \in {t[i].c[index] : i \in DOMAIN t} |->
        Frac(SumCol(Group(t, index, key), values), 1)]

\* pd.pivot_table(t, values, index=[index], aggfunc=np.mean): one mean per key.
PivotMean(t, values, index) ==
    [key \in {t[i].c[index] : i \in DOMAIN t} |->
        Frac(SumCol(Group(t, index, key), values), Len(Group(t, index, key)))]

\* One pivot_table followed by pd.merge(t, table, on=index, how="left").
HistStep(t, values, index, new) ==
    LET table == PivotMean(t, values, index)
    IN ResetIndex([i \in DOMAIN t |->
           [idx |-> t[i].idx, c |-> t[i].c @@ (new :> table[t[i].c[index]])]])

\* The twelve aggregates in the order main() adds them: <<values, index, new column>>.
HistList ==
    << <<"PTS_home", "HOME_TEAM_ID", "HIST_PPG_homeTeam">>,
       <<"FG_PCT_home", "HOME_TEAM_ID", "HIST_FGpercent_homeTeam">>,
       <<"FT_PCT_home", "HOME_TEAM_ID", "HIST_FTpercent_homeTeam">>,
       <<"FG3_PCT_home", "HOME_TEAM_ID", "HIST_FG3percent_homeTeam">>,
       <<"AST_home", "HOME_TEAM_ID", "HIST_APG_homeTeam">>,
       <<"REB_home", "HOME_TEAM_ID", "HIST_REB_homeTeam">>,
       <<"PTS_away", "TEAM_ID_away", "HIST_PPG_awayTeam">>,
       <<"FG_PCT_away", "TEAM_ID_away", "HIST_FGpercent_awayTeam">>,
       <<"FT_PCT_away", "TEAM_ID_away", "HIST_FTpercent_awayTeam">>,
       <<"FG3_PCT_away", "TEAM_ID_away", "HIST_FG3percent_awayTeam">>,
       <<"AST_away", "TEAM_ID_away", "HIST_APG_awayTeam">>,
       <<"REB_away", "TEAM_ID_away", "HIST_REB_awayTeam">> >>

RECURSIVE HistAll(_, _)
\* The first k aggregates applied in turn.
HistAll(t, k) ==
    IF k = 0 THEN t
    ELSE HistStep(HistAll(t, k - 1), HistList[k][1], HistList[k][2], HistList[k][3])

HistoricalAggregator ==
    /\ pc = "hist"
    /\ df' = HistAll(df, Len(HistList))
    /\ pc' = "diff"
    /\ UNCHANGED <<games_csv, df_tm, df_rnk, X, y>>
    /\ UNCHANGED selVars

\* The six differentials: <<new column, home aggregate, away aggregate>>.
DiffList ==
    << <<"DIFF_HIST_PPG", "HIST_PPG_homeTeam", "HIST_PPG_awayTeam">>,
       <<"DIFF_HIST_FG", "HIST_FGpercent_homeTeam", "HIST_FGpercent_awayTeam">>,
       <<"DIFF_HIST_FT", "HIST_FTpercent_homeTeam", "HIST_FTpercent_awayTeam">>,
       <<"DIFF_HIST_FG3", "HIST_FG3percent_homeTeam", "HIST_FG3percent_awayTeam">>,
       <<"DIFF_HIST_APG", "HIST_APG_homeTeam", "HIST_APG_awayTeam">>,
       <<"DIFF_HIST_REB", "HIST_REB_homeTeam", "HIST_REB_awayTeam">> >>

DiffCols(c) ==
    [k \in {DiffList[j][1] : j \in DOMAIN DiffList} |->
        LET j == CHOOSE j \in DOMAIN DiffList : DiffList[j][1] = k
        IN FracSub(c[DiffList[j][2]], c[DiffList[j][3]])]

Differentials ==
    /\ pc = "diff"
    /\ df' = [i \in DOMAIN df |-> [idx |-> df[i].idx, c |-> df[i].c @@ DiffCols(df[i].c)]]
    /\ pc' = "xy"
    /\ UNCHANGED <<games_csv, df_tm, df_rnk, X, y>>
    /\ UNCHANGED selVars

-----------------------------------------------------------------------------
(* LeakageFilter: lines 343-361.                                           *)

\* The drop list with one of the thirteen names left out.
LeakColsShort ==
    {"HOME_TEAM_WINS",
     "PTS_home", "FG_PCT_home", "FT_PCT_home", "FG3_PCT_home", "AST_home", "REB_home",
     "PTS_away", "FG_PCT_away", "FT_PCT_away", "AST_away", "REB_away"}

\* The columns main() drops to build X.
LeakCols ==
    {"HOME_TEAM_WINS",
     "PTS_home", "FG_PCT_home", "FT_PCT_home", "FG3_PCT_home", "AST_home", "REB_home",
     "PTS_away", "FG_PCT_away", "FT_PCT_away", "FG3_PCT_away", "AST_away", "REB_away"}

LeakageFilter ==
    /\ pc = "xy"
    /\ y' = [i \in DOMAIN df |-> [idx |-> df[i].idx, v |-> df[i].c.HOME_TEAM_WINS]]
    /\ X' = DropCols(df, LeakCols)
    /\ pc' = "split"
    /\ UNCHANGED <<games_csv, df, df_tm, df_rnk>>
    /\ UNCHANGED selVars

-----------------------------------------------------------------------------
(* ModelSelector: lines 362-421.  An AUC is in thousandths.  What a fit    *)
(* computes is not modelled: a candidate's AUC is a value of AUCValues,    *)
(* the same at every execution unless the fit draws random numbers from a  *)
(* generator that main() never seeds.  A row of result_table is the        *)
(* candidate's name and its AUC; the two ROC arrays are left out.          *)

MaxHigh == 1
AUCValues == {600, 700}
LowAUC == CHOOSE a \in AUCValues : \A b \in AUCValues : a <= b

\* The panel, in the order main() lists it: the class and the constructor arguments.
classifiers ==
    << [cls |-> "ExtraTreeClassifier", args |-> "random_state=2408"],
       [cls |-> "DecisionTreeClassifier", args |-> "random_state=2408"],
       [cls |-> "MLPClassifier", args |-> ""],
       [cls |-> "KNeighborsClassifier", args |-> ""],
       [cls |-> "AdaBoostClassifier", args |-> ""],
       [cls |-> "GradientBoostingClassifier", args |-> ""],
       [cls |-> "BaggingClassifier", args |-> ""],
       [cls |-> "RandomForestClassifier", args |-> "random_state=2408"],
       [cls |-> "BernoulliNB", args |-> ""],
       [cls |-> "GaussianNB", args |-> ""],
       [cls |-> "LinearDiscriminantAnalysis", args |-> ""],
       [cls |-> "LogisticRegression", args |-> ""],
       [cls |-> "LogisticRegressionCV", args |-> ""],
       [cls |-> "NuSVC", args |-> "probability=True"],
       [cls |-> "SVC", args |-> "probability=True"],
       [cls |-> "XGBClassifier", args |-> ""] >>

Panel == DOMAIN classifiers

\* The families whose fit draws random numbers (with probability=True the two
\* support-vector families cross-validate on shuffled folds).
Stochastic ==
    {"ExtraTreeClassifier", "DecisionTreeClassifier", "MLPClassifier", "AdaBoostClassifier",
     "GradientBoostingClassifier", "BaggingClassifier", "RandomForestClassifier",
     "NuSVC", "SVC"}

\* The panel entries whose random numbers come from the unseeded global generator.
Unseeded ==
    {i \in Panel : classifiers[i].cls \in Stochastic
                   /\ classifiers[i].args # "random_state=2408"}

\* The families with a feature_importances_ attribute.
HasImportances ==
    {"ExtraTreeClassifier", "DecisionTreeClassifier", "AdaBoostClassifier",
     "GradientBoostingClassifier", "RandomForestClassifier", "XGBClassifier"}

\* Whether an instance answers predict_proba: the two support-vector families do
\* only when constructed with probability=True.
HasPredictProba(inst) == inst.cls \in {"NuSVC", "SVC"} => inst.args = "probability=True"

\* train_test_split(X, y, test_size=0.3, random_state=2424)
TheSplit == [test_size |-> 30, random_state |-> 2424]

\* The split and the empty result table; with fewer than two rows one side of the
\* split would be empty and train_test_split raises.
TrainTestSplit ==
    /\ pc = "split"
    /\ IF Len(X) >= 2
       THEN /\ pc' = "panel"
            /\ err' = err
       ELSE /\ pc' = "crashed"
            /\ err' = [kind |-> "error", stage |-> "split", type |-> "ValueError",
                       at |-> "train_test_split"]
    /\ result_table' = <<>>
    /\ UNCHANGED <<detAUC, fitted, shown, final, pickled, run, prev>>
    /\ UNCHANGED dataVars

\* The AUCs one fit of panel entry i may end with.
FitAUCs(i) == IF i \in Unseeded THEN AUCValues ELSE {detAUC[i]}

\* One pass of the loop that ends normally.
FitCandidate ==
    /\ pc = "panel"
    /\ Len(result_table) < Len(classifiers)
    /\ LET i == Len(result_table) + 1
       IN /\ \E auc \in FitAUCs(i) :
                result_table' = Append(result_table,
                                       [Classifiers |-> classifiers[i].cls, AUC |-> auc])
          /\ fitted' = fitted @@ (i :> TheSplit)
    /\ UNCHANGED <<pc, detAUC, shown, final, pickled, err, run, prev>>
    /\ UNCHANGED dataVars

\* One pass of the loop in which fit, predict_proba, roc_curve or roc_auc_score
\* raises: nothing in main() catches it.
CandidateRaises ==
    /\ pc = "panel"
    /\ Len(result_table) < Len(classifiers)
    /\ err' = [kind |-> "error", stage |-> "panel", type |-> "ValueError",
               at |-> classifiers[Len(result_table) + 1].cls]
    /\ pc' = "crashed"
    /\ UNCHANGED <<detAUC, fitted, result_table, shown, final, pickled, run, prev>>
    /\ UNCHANGED dataVars

\* The bar chart of AUC per classifier.
BarChart ==
    /\ pc = "panel"
    /\ Len(result_table) = Len(classifiers)
    /\ shown' = Append(shown, [what |-> "bar", of |-> result_table])
    /\ pc' = "select"
    /\ UNCHANGED <<detAUC, fitted, result_table, final, pickled, err, run, prev>>
    /\ UNCHANGED dataVars

RECURSIVE IdxMaxUpTo(_, _)
\* Series.idxmax() over the first k entries: the first position holding the maximum.
IdxMaxUpTo(col, k) ==
    IF k = 1 THEN 1
    ELSE LET best == IdxMaxUpTo(col, k - 1)
         IN IF col[k] > col[best] THEN k ELSE best

\* The last position holding the maximum.
IdxMaxLast(col) ==
    CHOOSE k \in DOMAIN col :
        /\ \A j \in DOMAIN col : col[j] <= col[k]
        /\ \A j \in DOMAIN col : j > k => col[j] < col[k]

IdxMax(col) == IdxMaxUpTo(col, Len(col))

SelectBest ==
    /\ pc = "select"
    /\ LET column == [i \in DOMAIN result_table |-> result_table[i].AUC]
           max_index == IdxMax(column)
       IN final' = [kind |-> "name", name |-> result_table[max_index].Classifiers]
    /\ pc' = "rebuild"
    /\ UNCHANGED <<detAUC, fitted, result_table, shown, pickled, err, run, prev>>
    /\ UNCHANGED dataVars

-----------------------------------------------------------------------------
(* ExplainabilityReporter and persistence: lines 424-493.  The panel's     *)
(* instances are the objects 1..16; a new object takes the next number.    *)

\* The panel's own object of the named class.
PanelInstance(name) ==
    LET i == CHOOSE i \in Panel : classifiers[i].cls = name
    IN [kind |-> "instance", cls |-> name, args |-> classifiers[i].args, id |-> i,
        fitOn |-> None]

\* eval(name)(): a new object of the named class, constructed without arguments.
NewInstance(name) ==
    [kind |-> "instance", cls |-> name, args |-> "", id |-> Len(classifiers) + 1,
     fitOn |-> None]

Rebuild ==
    /\ pc = "rebuild"
    /\ final' = [NewInstance(final.name) EXCEPT !.fitOn = TheSplit]
    /\ pc' = "score"
    /\ UNCHANGED <<detAUC, fitted, result_table, shown, pickled, err, run, prev>>
    /\ UNCHANGED dataVars

\* predict, predict_proba and the accuracy print-out.
Score ==
    /\ pc = "score"
    /\ IF HasPredictProba(final)
       THEN /\ shown' = Append(shown, [what |-> "accuracy", of |-> final.id])
            /\ pc' = "explain"
            /\ err' = err
       ELSE /\ err' = [kind |-> "error", stage |-> "score", type |-> "AttributeError",
                       at |-> final.cls]
            /\ pc' = "crashed"
            /\ shown' = shown
    /\ UNCHANGED <<detAUC, fitted, result_table, final, pickled, run, prev>>
    /\ UNCHANGED dataVars

\* The feature-importance print-out.
Explain ==
    /\ pc = "explain"
    /\ IF final.cls \in HasImportances
       THEN /\ shown' = Append(shown, [what |-> "importance", of |-> final.id])
            /\ pc' = "plots"
            /\ err' = err
       ELSE /\ err' = [kind |-> "error", stage |-> "explain", type |-> "AttributeError",
                       at |-> final.cls]
            /\ pc' = "crashed"
            /\ shown' = shown
    /\ UNCHANGED <<detAUC, fitted, result_table, final, pickled, run, prev>>
    /\ UNCHANGED dataVars

\* The ROC curve and the importance chart of the final model.
Plots ==
    /\ pc = "plots"
    /\ shown' = shown \o << [what |-> "roc", of |-> final.id],
                            [what |-> "importanceChart", of |-> final.id] >>
    /\ pc' = "pickle"
    /\ UNCHANGED <<detAUC, fitted, result_table, final, pickled, err, run, prev>>
    /\ UNCHANGED dataVars

Persist ==
    /\ pc = "pickle"
    /\ pickled' = final
    /\ pc' = "done"
    /\ UNCHANGED <<detAUC, fitted, result_table, shown, final, err, run, prev>>
    /\ UNCHANGED dataVars

\* The program is started again on the same input files.
Rerun ==
    /\ pc \in {"done", "crashed"}
    /\ run = 1
    /\ final # None
    /\ prev' = [result_table |-> result_table, winner |-> final.cls]
    /\ run' = 2
    /\ fitted' = <<>>
    /\ result_table' = <<>>
    /\ shown' = <<>>
    /\ final' = None
    /\ pickled' = None
    /\ err' = None
    /\ pc' = "load"
    /\ games_csv' = <<>>
    /\ df' = <<>>
    /\ df_tm' = <<>>
    /\ df_rnk' = <<>>
    /\ X' = <<>>
    /\ y' = <<>>
    /\ UNCHANGED detAUC

-----------------------------------------------------------------------------
(* Initial states and specifications.                                      *)

\* The state of the selection variables when main() starts.
SelStart ==
    /\ fitted = <<>>
    /\ result_table = <<>>
    /\ shown = <<>>
    /\ final = None
    /\ pickled = None
    /\ err = None
    /\ run = 1
    /\ prev = None

\* The AUCs the input fixes: at most MaxHigh of the candidates above the lowest value.
AUCProfiles ==
    {f \in [Panel -> AUCValues] :
        /\ \A i \in Unseeded : f[i] = LowAUC
        /\ Cardinality({i \in Panel : f[i] # LowAUC}) <= MaxHigh}

Wins == {0, 1}

DataStart ==
    /\ pc = "load"
    /\ games_csv = <<>>
    /\ df = <<>>
    /\ df_tm = <<>>
    /\ df_rnk = <<>>
    /\ X = <<>>
    /\ y = <<>>

InitData ==
    /\ DataStart
    /\ detAUC = [i \in Panel |-> LowAUC]
    /\ SelStart

InitSelect ==
    /\ DataStart
    /\ detAUC \in AUCProfiles
    /\ SelStart

\* Any games file and any standings file within the bounds, every game with the first box score.
JoinGames ==
    {[i \in DOMAIN g |-> GameRow(g[i][1], g[i][2][1], g[i][2][2], 1)] :
        g \in SeqsUpTo(Dates \X Matchups, MaxGames)}
JoinRanks ==
    {[i \in DOMAIN r |-> RankRow(r[i][1], r[i][2], r[i][3])] :
        r \in SeqsUpTo(Teams \X Dates \X Wins, MaxStand)}

\* Input whose later games pass the joins: a standings row per team at the head of
\* ranking.csv, and two games at the head of games.csv.
StdRanks == <<RankRow(1, 42063, 1), RankRow(2, 42063, 0)>>
HeadGames == <<GameRow(42063, 1, 2, 1), GameRow(42063, 2, 1, 2)>>
FullTeams == AsTable([t \in 1..Cardinality(Teams) |-> TeamRow(t)])

HistGames ==
    {HeadGames \o [i \in DOMAIN g |-> GameRow(42064, g[i][1][1], g[i][1][2], g[i][2])] :
        g \in SeqsUpTo(Matchups \X DOMAIN BoxProfiles, MaxHistRows)}
CalGames == {HeadGames \o <<GameRow(d, 1, 2, 1)>> : d \in CalDates}
SelGames == {HeadGames \o <<GameRow(42064, 1, 2, 1), GameRow(42065, 2, 1, 2)>>}

\* The load step on the input files each specification draws from.
LoadJoin ==
    /\ pc = "load"
    /\ \E g \in JoinGames, r \in JoinRanks, t \in TeamTables : LoadAndClean(g, r, t)
LoadHist ==
    /\ pc = "load"
    /\ \E g \in HistGames : LoadAndClean(g, StdRanks, FullTeams)
LoadCal ==
    /\ pc = "load"
    /\ \E g \in CalGames : LoadAndClean(g, StdRanks, FullTeams)
LoadSel ==
    /\ pc = "load"
    /\ \E g \in SelGames : LoadAndClean(g, StdRanks, FullTeams)

Pipeline ==
    \/ TeamEnricher
    \/ JoinHome
    \/ DropHomeKeys
    \/ JoinAway
    \/ DropAwayKeys
    \/ CalendarFeaturizer
    \/ HistoricalAggregator
    \/ Differentials
    \/ LeakageFilter

Selection ==
    \/ TrainTestSplit
    \/ FitCandidate
    \/ CandidateRaises
    \/ BarChart
    \/ SelectBest
    \/ Rebuild
    \/ Score
    \/ Explain
    \/ Plots
    \/ Persist

Next == LoadJoin \/ Pipeline
NextHist == LoadHist \/ Pipeline
NextCal == LoadCal \/ Pipeline
NextSelect == LoadSel \/ Pipeline \/ Selection
NextRerun == LoadSel \/ Pipeline \/ Selection \/ Rerun

\* The feature pipeline over any small input.
Spec == InitData /\ [][Next]_vars
\* The feature pipeline over inputs whose rows pass the joins, with varied box scores.
SpecHist == InitData /\ [][NextHist]_vars
\* The feature pipeline over a game on each day of CalDates.
SpecCal == InitData /\ [][NextCal]_vars
\* The whole of main() on one input.
SpecSelect == InitSelect /\ [][NextSelect]_vars
\* main() executed twice on one input.
SpecRerun == InitSelect /\ [][NextRerun]_vars

-----------------------------------------------------------------------------
(* The claims.                                                             *)

\* C1: every game row that survives a standings join carries, for that side, a
\* standings row of the side's own team dated strictly before the game.
C1_AsOfStrictlyBefore ==
    /\ pc = "dropHomeKeys" =>
          \A i \in DOMAIN df :
              /\ df[i].c.TEAM_ID_homeTeam = df[i].c.HOME_TEAM_ID
              /\ df[i].c.STANDINGSDATE_homeTeam < df[i].c.GAME_DATE_EST
    /\ pc = "dropAwayKeys" =>
          \A i \in DOMAIN df :
              /\ df[i].c.TEAM_ID_awayTeam = df[i].c.VISITOR_TEAM_ID
              /\ df[i].c.STANDINGSDATE_awayTeam < df[i].c.GAME_DATE_EST

HasPriorStandings(team, date) ==
    \E j \in DOMAIN df_rnk :
        df_rnk[j].c.TEAM_ID = team /\ df_rnk[j].c.STANDINGSDATE < date

HasTeamRow(team) == \E j \in DOMAIN df_tm : df_tm[j].c.TEAM_ID = team

\* C2: after both joins a game is in the table exactly when its home team and its
\* visitor team each have a standings row dated strictly before the game (stated
\* for inputs in which every playing team has a row in the team table).
C2_PresentIffPriorStandings ==
    (/\ pc = "calendar"
     /\ \A k \in DOMAIN games_csv :
            HasTeamRow(games_csv[k].HOME_TEAM_ID) /\ HasTeamRow(games_csv[k].VISITOR_TEAM_ID))
    => {df[i].idx + 1 : i \in DOMAIN df}
         = {k \in DOMAIN games_csv :
               /\ HasPriorStandings(games_csv[k].HOME_TEAM_ID, games_csv[k].GAME_DATE_EST)
               /\ HasPriorStandings(games_csv[k].VISITOR_TEAM_ID, games_csv[k].GAME_DATE_EST)}

\* C3: X holds neither the label nor any of the twelve box-score columns of the
\* game, and X and y have the same rows in the same order (those of the table).
C3_NoLeakage ==
    pc = "split" =>
        /\ Len(X) = Len(df) /\ Len(y) = Len(df)
        /\ \A i \in DOMAIN X :
              /\ "HOME_TEAM_WINS" \notin DOMAIN X[i].c
              /\ BoxCols \cap DOMAIN X[i].c = {}
              /\ X[i].idx = y[i].idx /\ X[i].idx = df[i].idx
              /\ y[i].v = df[i].c.HOME_TEAM_WINS
              /\ \A k \in DOMAIN X[i].c : X[i].c[k] = df[i].c[k]

C3_Witness ==
    /\ pc = "split"
    /\ Len(X) >= 2
    /\ "DIFF_HIST_PPG" \in DOMAIN X[1].c
    /\ y[1].v # y[2].v

FirstMax(k) ==
    /\ \A j \in DOMAIN result_table : result_table[j].AUC <= result_table[k].AUC
    /\ \A j \in DOMAIN result_table : j < k => result_table[j].AUC < result_table[k].AUC

WinnerName == IF final.kind = "name" THEN final.name ELSE final.cls

\* C4: the results are recorded one per candidate in panel order, each with a
\* defined AUC, and the winner is the candidate with the maximum AUC, the earliest
\* in panel order among those that share it.
C4_FirstMaxSelected ==
    /\ Len(result_table) <= Len(classifiers)
    /\ \A i \in DOMAIN result_table :
          result_table[i].Classifiers = classifiers[i].cls /\ result_table[i].AUC # NaN
    /\ final # None =>
          /\ Len(result_table) = Len(classifiers)
          /\ \E k \in DOMAIN result_table :
                result_table[k].Classifiers = WinnerName /\ FirstMax(k)

C4_Witness ==
    /\ pc = "rebuild"
    /\ \E i, j \in DOMAIN result_table :
          /\ 1 < i /\ i < j
          /\ result_table[i].Classifiers = final.name
          /\ result_table[i].AUC = result_table[j].AUC

\* C5: a candidate's failure ends the run only if every candidate has failed: none
\* has produced a result and none is left untried.
C5_FatalOnlyIfAllFail ==
    (err # None /\ err.stage = "panel") =>
        /\ Len(result_table) = 0
        /\ Panel \ (1..(Len(result_table) + 1)) = {}

\* C6: the final model is a new object of the winner's class built with default
\* arguments, fitted on the split every panel candidate was fitted on, and it is
\* the object that is scored, explained and pickled.
C6_RebuiltByName ==
    /\ final.kind = "instance" =>
          /\ \E k \in DOMAIN result_table :
                result_table[k].Classifiers = final.cls /\ FirstMax(k)
          /\ final.args = ""
          /\ final.id \notin Panel
          /\ final.fitOn = [test_size |-> 30, random_state |-> 2424]
          /\ DOMAIN fitted = Panel
          /\ \A i \in DOMAIN fitted : fitted[i] = final.fitOn
    /\ \A k \in DOMAIN shown :
          shown[k].what # "bar" => final.kind = "instance" /\ shown[k].of = final.id
    /\ pickled # None => final.kind = "instance" /\ pickled = final

C6_Witness ==
    /\ pc = "done"
    /\ pickled.cls = "RandomForestClassifier"
    /\ Len(shown) = 5

\* C7: when the winner's family has no feature importances the run ends at the
\* explainability step, after the chart of every candidate's AUC, with no
\* importance ranking shown and nothing pickled.
C7_FailsAtExplainability ==
    (final.kind = "instance" /\ final.cls \notin HasImportances /\ pc \in {"crashed", "done"})
    => /\ err # None /\ err.stage = "explain"
       /\ \E k \in DOMAIN shown : shown[k].what = "bar"
       /\ \A k \in DOMAIN shown : shown[k].what \notin {"importance", "importanceChart"}
       /\ pickled = None

SameOrder(a, b) ==
    \A i, j \in Panel : (a[i].AUC < a[j].AUC) <=> (b[i].AUC < b[j].AUC)

\* C8: a second execution on the same input selects the same winner and orders
\* the candidates by AUC as the first did.
C8_SameOutcome ==
    (run = 2 /\ final # None) =>
        /\ WinnerName = prev.winner
        /\ SameOrder(prev.result_table, result_table)

RefMonthLengths ==
    <<31, 28, 31, 30, 31, 30, 31, 31, 30, 31, 30, 31,
      31, 29, 31, 30, 31, 30, 31, 31, 30, 31, 30, 31>>

RECURSIVE RefMonthFrom(_, _)
\* The month of the day off days after the first of the k-th month counted from January 2015.
RefMonthFrom(off, k) ==
    IF off < RefMonthLengths[k] THEN ((k - 1) % 12) + 1
    ELSE RefMonthFrom(off - RefMonthLengths[k], k + 1)

\* Day 42064 is Sunday 2015-03-01, so day 42005 is 2015-01-01.
RefMonth(x) == RefMonthFrom(x - 42005, 1)
RefWeekday(x) == (x - 42064 + 6) % 7

\* C9: WEEKDAY is the weekday (0 = Monday) and MONTH_NUM the month of the day
\* 1900-01-01 + (x - 2), WEEKEND_GAME is 1 exactly when WEEKDAY >= 5, PLAYOFF_GAME
\* is 1 exactly when MONTH_NUM is in 4..6, and day 42064 (2015-03-01) gives 6, 1, 3, 0.
C9_CalendarFeatures ==
    pc \in {"hist", "diff", "xy", "split"} =>
        \A i \in DOMAIN df :
            LET r == df[i].c
                x == r.GAME_DATE_EST
            IN /\ r.WEEKDAY = RefWeekday(x)
               /\ r.MONTH_NUM = RefMonth(x)
               /\ r.MONTH_NUM \in 1..12
               /\ r.WEEKEND_GAME = (IF r.WEEKDAY >= 5 THEN 1 ELSE 0)
               /\ r.PLAYOFF_GAME = (IF r.MONTH_NUM \in 4..6 THEN 1 ELSE 0)
               /\ x = 42064 =>
                     r.WEEKDAY = 6 /\ r.WEEKEND_GAME = 1 /\ r.MONTH_NUM = 3 /\ r.PLAYOFF_GAME = 0

C9_Witness ==
    /\ pc = "hist"
    /\ \E i \in DOMAIN df : df[i].c.GAME_DATE_EST = 42064 /\ df[i].c.WEEKDAY = 6

RECURSIVE SetSum(_, _, _)
\* The sum of column col of t over the positions in S.
SetSum(t, S, col) ==
    IF S = {} THEN 0
    ELSE LET j == CHOOSE j \in S : TRUE IN t[j].c[col] + SetSum(t, S \ {j}, col)

\* The aggregates as the claim names them: <<column averaged, team column, aggregate>>.
C10_Aggregates ==
    { <<"PTS_home", "HOME_TEAM_ID", "HIST_PPG_homeTeam">>,
      <<"FG_PCT_home", "HOME_TEAM_ID", "HIST_FGpercent_homeTeam">>,
      <<"FT_PCT_home", "HOME_TEAM_ID", "HIST_FTpercent_homeTeam">>,
      <<"FG3_PCT_home", "HOME_TEAM_ID", "HIST_FG3percent_homeTeam">>,
      <<"AST_home", "HOME_TEAM_ID", "HIST_APG_homeTeam">>,
      <<"REB_home", "HOME_TEAM_ID", "HIST_REB_homeTeam">>,
      <<"PTS_away", "TEAM_ID_away", "HIST_PPG_awayTeam">>,
      <<"FG_PCT_away", "TEAM_ID_away", "HIST_FGpercent_awayTeam">>,
      <<"FT_PCT_away", "TEAM_ID_away", "HIST_FTpercent_awayTeam">>,
      <<"FG3_PCT_away", "TEAM_ID_away", "HIST_FG3percent_awayTeam">>,
      <<"AST_away", "TEAM_ID_away", "HIST_APG_awayTeam">>,
      <<"REB_away", "TEAM_ID_away", "HIST_REB_awayTeam">> }

C10_Differentials ==
    { <<"DIFF_HIST_PPG", "HIST_PPG_homeTeam", "HIST_PPG_awayTeam">>,
      <<"DIFF_HIST_FG", "HIST_FGpercent_homeTeam", "HIST_FGpercent_awayTeam">>,
      <<"DIFF_HIST_FT", "HIST_FTpercent_homeTeam", "HIST_FTpercent_awayTeam">>,
      <<"DIFF_HIST_FG3", "HIST_FG3percent_homeTeam", "HIST_FG3percent_awayTeam">>,
      <<"DIFF_HIST_APG", "HIST_APG_homeTeam", "HIST_APG_awayTeam">>,
      <<"DIFF_HIST_REB", "HIST_REB_homeTeam", "HIST_REB_awayTeam">> }

\* The aggregates of table t are the means over all of t's rows of the same team.
MeansOver(t) ==
    \A i \in DOMAIN t : \A a \in C10_Aggregates :
        LET grp == {j \in DOMAIN t : t[j].c[a[2]] = t[i].c[a[2]]}
            m == t[i].c[a[3]]
        IN m.d > 0 /\ m.n * Cardinality(grp) = SetSum(t, grp, a[1]) * m.d

=============================================================================
